---- MODULE Spec2Model ----
(***************************************************************************)
(* The css selector builder of src/src/05-objects-tasks.js: the class     *)
(* CurrentBuilder (lines 114-186) and the facade cssSelectorBuilder        *)
(* (lines 189-220).                                                        *)
(*                                                                         *)
(* The heap is the sequence `builders`: builder n is the n-th object a     *)
(* `new CurrentBuilder(...)` allocated.  A JavaScript string is a TLA+     *)
(* string, `+` and template literals are \o.  A call either returns or     *)
(* throws; `outcome` holds what the last call did.                         *)
(***************************************************************************)
EXTENDS Integers, Sequences, FiniteSets, TLC

VARIABLES
    builders,   \* the heap: builders[n] = [stack, singleStack, order] of object n
    call,       \* the last call: [op, this, selector1, combinator, selector2]
    outcome,    \* what the last call did: [type, ref, str, msg]
    calls,      \* history: the calls made so far
    log,        \* history: log[n] = the <<kind, value>> fragments of builder n, in call
                \* order, while n is a builder a fragment function of the facade made
                \* and every call on it since was a fragment method that returned;
                \* <<>> from the first other call on
    accepted,   \* history: accepted[n] = the kinds of the fragments builder n was made
                \* with or a fragment method of n returned for
    drained     \* history: the builders stringify ran on, and on which since no
                \* fragment method returned and no combine pushed

vars == <<builders, call, outcome, calls, log, accepted, drained>>

(***************************************************************************)
(* Inputs and bounds.                                                      *)
(***************************************************************************)
Names == {"a"}          \* Spec: the value of a fragment
Combinators == {"", " "} \* Spec: the combinator of a combine
Values == {"a", "b"}    \* SpecChain: the value of a fragment

MaxBuilders == 4     \* Spec: objects allocated
MaxCalls == 4        \* Spec: calls of the facade and of methods
MaxChain == 6        \* SpecChain: parts on the stack of the builder

(***************************************************************************)
(* JavaScript values.                                                      *)
(***************************************************************************)
\* `undefined` where a number is expected (the order of `new CurrentBuilder(s)`).
Undefined == -1

\* A missing string argument (the id of `new CurrentBuilder(s)`): falsy, like ''.
NoId == ""

\* Mutant of Truthy: the constructor pushes the id without the test.
TruthyAlways(id) == TRUE

Truthy(id) == id # NoId

\* Mutant of LessThan: value <= this.order.
LessOrEqual(value, order) == order # Undefined /\ value <= order

\* Mutant of LessThan: undefined is above every number.
LessThanUndefinedAbove(value, order) == order = Undefined \/ value < order

\* value < this.order: a comparison with undefined is false.
LessThan(value, order) == order # Undefined /\ value < order

\* Mutant of Contains: indexOf(value) > 0, which misses the first entry.
ContainsAfterFirst(array, value) == \E i \in 2..Len(array) : array[i] = value

\* Array.prototype.indexOf(value) > -1
Contains(array, value) == \E i \in 1..Len(array) : array[i] = value

\* Array.prototype.join('')
RECURSIVE Join(_)
Join(array) == IF array = <<>> THEN "" ELSE Head(array) \o Join(Tail(array))

DuplicateMessage ==
    "Element, id and pseudo-element should not occur more then one time inside the selector"

OrderMessage ==
    "Selector parts should be arranged in the following order: element, id, class, attribute, pseudo-class, pseudo-element"

NoThrow == ""

Returned(n) == [type |-> "builder", ref |-> n, str |-> "", msg |-> NoThrow]
ReturnedString(s) == [type |-> "string", ref |-> 0, str |-> s, msg |-> NoThrow]
Thrown(m) == [type |-> "throw", ref |-> 0, str |-> "", msg |-> m]

\* A call of a method of builder n, or of a function of the facade (n = 0).
Called(op, n) ==
    [op |-> op, this |-> n, selector1 |-> 0, combinator |-> "", selector2 |-> 0]

CalledCombine(n, selector1, combinator, selector2) ==
    [op |-> "combine", this |-> n,
     selector1 |-> selector1, combinator |-> combinator, selector2 |-> selector2]

(***************************************************************************)
(* class CurrentBuilder                                                    *)
(***************************************************************************)
\* constructor(value, order, id)
CurrentBuilder(value, order, id) ==
    [stack |-> <<value>>,
     singleStack |-> IF Truthy(id) THEN <<id>> ELSE <<>>,
     order |-> order]

\* Mutant of StringifyBody: the stack is not cleared.
StringifyBodyKeepsStack(this) ==
    [this |-> this, str |-> Join(this.stack), msg |-> NoThrow]

\* Mutant of StringifyBody: singleStack and order are cleared with the stack.
StringifyBodyResetsAll(this) ==
    [this |-> [stack |-> <<>>, singleStack |-> <<>>, order |-> Undefined],
     str |-> Join(this.stack),
     msg |-> NoThrow]

\* Mutant of StringifyBody: a builder with no part refuses to serialize.
StringifyBodyOnce(this) ==
    IF this.stack = <<>>
    THEN [this |-> this, str |-> "", msg |-> "Selector is already built"]
    ELSE [this |-> [this EXCEPT !.stack = <<>>],
          str |-> Join(this.stack),
          msg |-> NoThrow]

\* stringify(): the object it leaves, the string it returns, the message thrown.
StringifyBody(this) ==
    [this |-> [this EXCEPT !.stack = <<>>], str |-> Join(this.stack), msg |-> NoThrow]

\* testUniq(value): the object after the call and the message thrown, if any.
testUniq(this, value) ==
    IF Contains(this.singleStack, value)
    THEN [this |-> this, msg |-> DuplicateMessage]
    ELSE [this |-> [this EXCEPT !.singleStack = Append(@, value)], msg |-> NoThrow]

\* Mutant of testOrder: the Error is made and not thrown.
testOrderNoThrow(this, value) ==
    IF LessThan(value, this.order)
    THEN [this |-> this, msg |-> NoThrow]
    ELSE [this |-> [this EXCEPT !.order = value], msg |-> NoThrow]

\* Mutant of testOrder: the order is written before the comparison throws.
testOrderWritesThenThrows(this, value) ==
    IF LessThan(value, this.order)
    THEN [this |-> [this EXCEPT !.order = value], msg |-> OrderMessage]
    ELSE [this |-> [this EXCEPT !.order = value], msg |-> NoThrow]

\* testOrder(value)
testOrder(this, value) ==
    IF LessThan(value, this.order)
    THEN [this |-> this, msg |-> OrderMessage]
    ELSE [this |-> [this EXCEPT !.order = value], msg |-> NoThrow]

\* Mutant of Push: this.stack.unshift(part)
PushFront(this, part) == [this EXCEPT !.stack = <<part>> \o @]

\* this.stack.push(part)
Push(this, part) == [this EXCEPT !.stack = Append(@, part)]

\* Two checks in the order the method calls them, then the push: the second
\* check runs on the object the first one left, and a throw keeps what was
\* written before it.
Checked(first, second, part) ==
    IF first.msg # NoThrow THEN first
    ELSE IF second.msg # NoThrow THEN second
    ELSE [this |-> Push(second.this, part), msg |-> NoThrow]

Unchecked(this) == [this |-> this, msg |-> NoThrow]

\* Mutant of ElementBody: testOrder(0) runs before testUniq('element').
ElementBodyOrderFirst(this, value) ==
    LET o == testOrder(this, 0)
        u == testUniq(o.this, "element")
    IN  Checked(o, u, value)

ElementBody(this, value) ==
    LET u == testUniq(this, "element")
        o == testOrder(u.this, 0)
    IN  Checked(u, o, value)

IdBody(this, value) ==
    LET u == testUniq(this, "id")
        o == testOrder(u.this, 1)
    IN  Checked(u, o, "#" \o value)

ClassBody(this, value) ==
    LET o == testOrder(this, 2)
    IN  Checked(Unchecked(this), o, "." \o value)

AttrBody(this, value) ==
    LET o == testOrder(this, 3)
    IN  Checked(Unchecked(this), o, "[" \o value \o "]")

PseudoClassBody(this, value) ==
    LET o == testOrder(this, 4)
    IN  Checked(Unchecked(this), o, ":" \o value)

\* Mutant of PseudoElementBody: the part has one colon.
PseudoElementBodyOneColon(this, value) ==
    LET o == testOrder(this, 5)
        u == testUniq(o.this, "pseudoElement")
    IN  Checked(o, u, ":" \o value)

PseudoElementBody(this, value) ==
    LET o == testOrder(this, 5)
        u == testUniq(o.this, "pseudoElement")
    IN  Checked(o, u, "::" \o value)

\* Mutant of CombinatorValue: the empty combinator is wrapped too.
CombinatorValueAlwaysWrapped(combinator) == " " \o combinator \o " "

\* Mutant of CombinatorValue: combinator.trim() === '' ? combinator : ...
CombinatorValueTrimmed(combinator) ==
    IF combinator \in {"", " "} THEN combinator ELSE " " \o combinator \o " "

\* combinator === '' ? combinator : ` ${combinator} `
CombinatorValue(combinator) ==
    IF combinator = "" THEN combinator ELSE " " \o combinator \o " "

\* Mutant of CombineBody: the stacks of the selectors are joined, not cleared.
CombineBodyReadsOnly(heap, selector1, combinator, selector2) ==
    [heap |-> heap,
     str |-> Join(heap[selector1].stack) \o CombinatorValue(combinator)
             \o Join(heap[selector2].stack),
     msg |-> NoThrow]

\* The first three statements of both combine functions, on the heap: the two
\* stringify calls run one after the other, the second on the heap the first left.
CombineBody(heap, selector1, combinator, selector2) ==
    LET r1 == StringifyBody(heap[selector1])
        heap1 == [heap EXCEPT ![selector1] = r1.this]
        r2 == StringifyBody(heap1[selector2])
        heap2 == [heap1 EXCEPT ![selector2] = r2.this]
    IN  IF r1.msg # NoThrow THEN [heap |-> heap, str |-> "", msg |-> r1.msg]
        ELSE IF r2.msg # NoThrow THEN [heap |-> heap1, str |-> "", msg |-> r2.msg]
        ELSE [heap |-> heap2,
              str |-> r1.str \o CombinatorValue(combinator) \o r2.str,
              msg |-> NoThrow]

(***************************************************************************)
(* The methods of a builder as steps: builder n is `this`.                 *)
(***************************************************************************)
\* A fragment method: the object its body left, `return this` or the throw.
\* (\E over a one-element set: the body is evaluated once.)
Call(n, body, fragment) ==
    \E b \in {body} :
        /\ builders' = [builders EXCEPT ![n] = b.this]
        /\ call' = Called(fragment[1], n)
        /\ outcome' = IF b.msg = NoThrow THEN Returned(n) ELSE Thrown(b.msg)
        /\ log' = [log EXCEPT ![n] = IF b.msg = NoThrow /\ @ # <<>>
                                      THEN Append(@, fragment)
                                      ELSE <<>>]
        /\ accepted' = IF b.msg = NoThrow
                       THEN [accepted EXCEPT ![n] = @ \cup {fragment[1]}]
                       ELSE accepted
        /\ drained' = IF b.msg = NoThrow THEN drained \ {n} ELSE drained

element(n, value) == Call(n, ElementBody(builders[n], value), <<"element", value>>)

id(n, value) == Call(n, IdBody(builders[n], value), <<"id", value>>)

class(n, value) == Call(n, ClassBody(builders[n], value), <<"class", value>>)

attr(n, value) == Call(n, AttrBody(builders[n], value), <<"attr", value>>)

pseudoClass(n, value) ==
    Call(n, PseudoClassBody(builders[n], value), <<"pseudoClass", value>>)

pseudoElement(n, value) ==
    Call(n, PseudoElementBody(builders[n], value), <<"pseudoElement", value>>)

stringify(n) ==
    \E r \in {StringifyBody(builders[n])} :
        /\ builders' = [builders EXCEPT ![n] = r.this]
        /\ call' = Called("stringify", n)
        /\ outcome' = IF r.msg = NoThrow THEN ReturnedString(r.str) ELSE Thrown(r.msg)
        /\ log' = [log EXCEPT ![n] = <<>>]
        /\ drained' = IF r.msg = NoThrow THEN drained \cup {n} ELSE drained
        /\ UNCHANGED accepted

combine(n, selector1, combinator, selector2) ==
    \E c \in {CombineBody(builders, selector1, combinator, selector2)} :
        /\ builders' = IF c.msg = NoThrow
                       THEN [c.heap EXCEPT ![n] = Push(@, c.str)]
                       ELSE c.heap
        /\ call' = CalledCombine(n, selector1, combinator, selector2)
        /\ outcome' = IF c.msg = NoThrow THEN Returned(n) ELSE Thrown(c.msg)
        /\ log' = [[[log EXCEPT ![n] = <<>>]
                           EXCEPT ![selector1] = <<>>]
                           EXCEPT ![selector2] = <<>>]
        /\ drained' = IF c.msg = NoThrow
                      THEN (drained \cup {selector1, selector2}) \ {n}
                      ELSE drained
        /\ UNCHANGED accepted

(***************************************************************************)
(* The facade cssSelectorBuilder.                                          *)
(***************************************************************************)
\* Mutant of New: the facade keeps one builder and hands it out again.
NewSingleton(object, fragment) ==
    IF builders = <<>>
    THEN /\ builders' = <<object>>
         /\ call' = Called(fragment[1], 0)
         /\ outcome' = Returned(1)
         /\ log' = <<(<<fragment>>)>>
         /\ accepted' = <<{fragment[1]}>>
         /\ UNCHANGED drained
    ELSE /\ builders' = [builders EXCEPT ![1] = object]
         /\ call' = Called(fragment[1], 0)
         /\ outcome' = Returned(1)
         /\ log' = [log EXCEPT ![1] = <<fragment>>]
         /\ accepted' = [accepted EXCEPT ![1] = {fragment[1]}]
         /\ drained' = drained \ {1}

\* `return new CurrentBuilder(...)` of a fragment function: a fresh object.
New(object, fragment) ==
    /\ builders' = Append(builders, object)
    /\ call' = Called(fragment[1], 0)
    /\ outcome' = Returned(Len(builders) + 1)
    /\ log' = Append(log, <<fragment>>)
    /\ accepted' = Append(accepted, {fragment[1]})
    /\ UNCHANGED drained

\* The object each fragment function of the facade constructs.
Made(kind, value) ==
    CASE kind = "element" -> CurrentBuilder(value, 0, "element")
      [] kind = "id" -> CurrentBuilder("#" \o value, 1, "id")
      [] kind = "class" -> CurrentBuilder("." \o value, 2, "class")
      [] kind = "attr" -> CurrentBuilder("[" \o value \o "]", 3, "attr")
      [] kind = "pseudoClass" -> CurrentBuilder(":" \o value, 4, "pseudoClass")
      [] kind = "pseudoElement" -> CurrentBuilder("::" \o value, 5, "pseudoElement")

cssSelectorBuilder_element(value) ==
    New(Made("element", value), <<"element", value>>)

cssSelectorBuilder_id(value) ==
    New(Made("id", value), <<"id", value>>)

cssSelectorBuilder_class(value) ==
    New(Made("class", value), <<"class", value>>)

cssSelectorBuilder_attr(value) ==
    New(Made("attr", value), <<"attr", value>>)

cssSelectorBuilder_pseudoClass(value) ==
    New(Made("pseudoClass", value), <<"pseudoClass", value>>)

cssSelectorBuilder_pseudoElement(value) ==
    New(Made("pseudoElement", value), <<"pseudoElement", value>>)

cssSelectorBuilder_combine(selector1, combinator, selector2) ==
    \E c \in {CombineBody(builders, selector1, combinator, selector2)} :
        /\ builders' = IF c.msg = NoThrow
                       THEN Append(c.heap, CurrentBuilder(c.str, Undefined, NoId))
                       ELSE c.heap
        /\ call' = CalledCombine(0, selector1, combinator, selector2)
        /\ outcome' = IF c.msg = NoThrow
                      THEN Returned(Len(builders) + 1)
                      ELSE Thrown(c.msg)
        /\ log' = LET used == [[log EXCEPT ![selector1] = <<>>]
                                     EXCEPT ![selector2] = <<>>]
                  IN  IF c.msg = NoThrow THEN Append(used, <<>>) ELSE used
        /\ accepted' = IF c.msg = NoThrow THEN Append(accepted, {}) ELSE accepted
        /\ drained' = IF c.msg = NoThrow
                      THEN drained \cup {selector1, selector2}
                      ELSE drained

(***************************************************************************)
(* Spec: a program that calls the facade and the methods of the builders   *)
(* it got, in any order, starting with no builder.                         *)
(***************************************************************************)
Init ==
    /\ builders = <<>>
    /\ call = Called("require", 0)
    /\ outcome = Returned(0)
    /\ calls = 0
    /\ log = <<>>
    /\ accepted = <<>>
    /\ drained = {}

Refs == DOMAIN builders

CanAllocate == Len(builders) < MaxBuilders

CanCall == calls < MaxCalls

Step ==
    \/ \E value \in Names : CanAllocate /\ cssSelectorBuilder_element(value)
    \/ \E value \in Names : CanAllocate /\ cssSelectorBuilder_id(value)
    \/ \E value \in Names : CanAllocate /\ cssSelectorBuilder_class(value)
    \/ \E value \in Names : CanAllocate /\ cssSelectorBuilder_attr(value)
    \/ \E value \in Names : CanAllocate /\ cssSelectorBuilder_pseudoClass(value)
    \/ \E value \in Names : CanAllocate /\ cssSelectorBuilder_pseudoElement(value)
    \/ \E s1 \in Refs, s2 \in Refs, c \in Combinators :
          CanAllocate /\ cssSelectorBuilder_combine(s1, c, s2)
    \/ \E n \in Refs, value \in Names :  element(n, value)
    \/ \E n \in Refs, value \in Names :  id(n, value)
    \/ \E n \in Refs, value \in Names :  class(n, value)
    \/ \E n \in Refs, value \in Names :  attr(n, value)
    \/ \E n \in Refs, value \in Names :  pseudoClass(n, value)
    \/ \E n \in Refs, value \in Names :  pseudoElement(n, value)
    \/ \E n \in Refs : stringify(n)
    \/ \E n \in Refs, s1 \in Refs, s2 \in Refs, c \in Combinators :
          combine(n, s1, c, s2)

Next == CanCall /\ Step /\ calls' = calls + 1

Spec == Init /\ [][Next]_vars

(***************************************************************************)
(* SpecChain: one builder, from the fragment function of the facade that   *)
(* made it, through any chain of its fragment methods and stringify.       *)
(***************************************************************************)
Kinds == {"element", "id", "class", "attr", "pseudoClass", "pseudoElement"}

InitChain ==
    \E kind \in Kinds, value \in Values :
        /\ builders = <<Made(kind, value)>>
        /\ call = Called(kind, 0)
        /\ outcome = Returned(1)
        /\ calls = 1
        /\ log = <<(<<(<<kind, value>>)>>)>>
        /\ accepted = <<{kind}>>
        /\ drained = {}

CanPush == Len(builders[1].stack) < MaxChain

StepChain ==
    \/ \E value \in Values : element(1, value)
    \/ \E value \in Values : id(1, value)
    \/ \E value \in Values : class(1, value)
    \/ \E value \in Values : attr(1, value)
    \/ \E value \in Values : pseudoClass(1, value)
    \/ \E value \in Values : pseudoElement(1, value)

NextChain ==
    \/ CanPush /\ StepChain /\ UNCHANGED calls
    \/ stringify(1) /\ UNCHANGED calls

SpecChain == InitChain /\ [][NextChain]_vars

(***************************************************************************)
(* The vocabulary of the statements checked below: the rank table, the    *)
(* kinds that may occur once, the prefixed value of a fragment.            *)
(***************************************************************************)
Singles == {"element", "id", "pseudoElement"}

Repeatables == {"class", "attr", "pseudoClass"}

Rank(kind) ==
    CASE kind = "element" -> 0
      [] kind = "id" -> 1
      [] kind = "class" -> 2
      [] kind = "attr" -> 3
      [] kind = "pseudoClass" -> 4
      [] kind = "pseudoElement" -> 5

Prefixed(fragment) ==
    CASE fragment[1] = "element" -> fragment[2]
      [] fragment[1] = "id" -> "#" \o fragment[2]
      [] fragment[1] = "class" -> "." \o fragment[2]
      [] fragment[1] = "attr" -> "[" \o fragment[2] \o "]"
      [] fragment[1] = "pseudoClass" -> ":" \o fragment[2]
      [] fragment[1] = "pseudoElement" -> "::" \o fragment[2]

RECURSIVE Concatenation(_)
Concatenation(fragments) ==
    IF fragments = <<>> THEN ""
    ELSE Prefixed(Head(fragments)) \o Concatenation(Tail(fragments))

\* The kinds of the fragments logged for builder n, in call order.
LoggedKinds(n) == [i \in 1..Len(log[n]) |-> log[n][i][1]]

\* The ranks never fall, and element, id and pseudoElement occur at most once.
Respects(kinds) ==
    \A i \in 1..Len(kinds), j \in 1..Len(kinds) :
        i < j => /\ Rank(kinds[i]) <= Rank(kinds[j])
                 /\ kinds[i] = kinds[j] => kinds[i] \notin Singles

\* The step is a call of a fragment method of a builder.
IsAppend == call'.this > 0 /\ call'.op \in Kinds

\* The step is a call of stringify().
IsStringify == call'.this > 0 /\ call'.op = "stringify"

\* What stringify() would return for builder n.
Serialization(n) == StringifyBody(builders[n]).str

\* C1: on a builder a fragment function of the facade made, as long as the
\* fragments appended respect the rank order and use element, id and
\* pseudoElement at most once, no fragment method throws, and stringify()
\* returns the prefixed values of the fragments, concatenated in call order.
C1_ChainSerializes ==
    /\ [][(/\ IsAppend
            /\ log[call'.this] # <<>>
            /\ Respects(Append(LoggedKinds(call'.this), call'.op)))
           => outcome' = Returned(call'.this)]_vars
    /\ [][(/\ IsStringify
            /\ log[call'.this] # <<>>
            /\ Respects(LoggedKinds(call'.this)))
           => outcome' = ReturnedString(Concatenation(log[call'.this]))]_vars

\* stringify() returned the chain of all six kinds.
C1_Witness ==
    /\ call = Called("stringify", 1)
    /\ outcome = ReturnedString("a#b.a[b]:a::b")
    /\ builders[1].stack = <<>>

\* C2: element, id or pseudoElement on a builder that already accepted a
\* fragment of that kind throws the duplicate error, whatever was appended
\* in between.
C2_DuplicateThrows ==
    [][(IsAppend /\ call'.op \in Singles \cap accepted[call'.this])
        => outcome' = Thrown(DuplicateMessage)]_vars

\* A second id was refused after two other fragments.
C2_Witness ==
    /\ call = Called("id", 1)
    /\ outcome = Thrown(DuplicateMessage)
    /\ builders[1].stack = <<"#a", ".b", "[a]">>

\* C3 as stated: a fragment of a rank below the current rank always throws the
\* order error.
C3_LowerRankThrowsOrder ==
    [][(IsAppend /\ Rank(call'.op) < builders[call'.this].order)
        => outcome' = Thrown(OrderMessage)]_vars

\* C3 as amended: a fragment of a rank below the current rank always throws;
\* the duplicate error when it is an element or id whose kind is already in
\* singleStack (the uniqueness check runs first), the order error otherwise.
C3_LowerRankThrows ==
    [][(IsAppend /\ Rank(call'.op) < builders[call'.this].order)
        => outcome' = Thrown(IF /\ call'.op \in {"element", "id"}
                                /\ Contains(builders[call'.this].singleStack, call'.op)
                             THEN DuplicateMessage
                             ELSE OrderMessage)]_vars

\* An id was refused after a class, for its order.
C3_Witness ==
    /\ call = Called("id", 1)
    /\ outcome = Thrown(OrderMessage)
    /\ builders[1].stack = <<"a", ".b">>
    /\ builders[1].singleStack = <<"element", "id">>

\* C4: a fragment of a rank equal to or above the current rank never throws
\* the order error, and class, attr and pseudoClass after a fragment of their
\* own kind throw nothing.
C4_EqualOrHigherRankAccepted ==
    /\ [][(IsAppend /\ Rank(call'.op) >= builders[call'.this].order)
           => outcome'.msg # OrderMessage]_vars
    /\ [][(/\ IsAppend
            /\ call'.op \in Repeatables
            /\ Rank(call'.op) = builders[call'.this].order)
           => outcome' = Returned(call'.this)]_vars

\* The same kind four times in a row.
C4_Witness ==
    /\ call = Called("attr", 1)
    /\ outcome = Returned(1)
    /\ builders[1].stack = <<"[a]", "[b]", "[b]", "[a]">>

\* C5: the builder that combine(s1, c, s2) of the facade returns for two
\* distinct builders serializes to the serialization of s1, then c (between
\* two spaces unless c is empty), then the serialization of s2; s1 and s2 may
\* themselves hold the result of a combine.
C5_CombineJoins ==
    [][(/\ call'.op = "combine"
        /\ call'.this = 0
        /\ call'.selector1 # call'.selector2)
       => /\ outcome'.type = "builder"
          /\ outcome'.ref \notin Refs
          /\ StringifyBody(builders'[outcome'.ref]).str =
                 Serialization(call'.selector1)
                 \o (IF call'.combinator = "" THEN ""
                     ELSE " " \o call'.combinator \o " ")
                 \o Serialization(call'.selector2)]_vars

\* Builder 2 holds a combine of builder 1; builder 4 is the combine of
\* builder 2 and of builder 3, an id.
C5_Witness ==
    /\ call = CalledCombine(0, 2, "", 3)
    /\ builders[2].order = Undefined
    /\ builders[3].singleStack = <<"id">>
    /\ builders[4].stack = <<".a   #a">>

\* The part a combine with the combinator ' ' built: left, sep, right.
SpaceCombineSeparates(sep) ==
    (call'.op = "combine" /\ call'.combinator = " ")
    => LET left == Serialization(call'.selector1)
           right == IF call'.selector2 = call'.selector1 THEN ""
                    ELSE Serialization(call'.selector2)
           target == IF call'.this = 0 THEN outcome'.ref ELSE call'.this
           parts == builders'[target].stack
       IN  /\ outcome' = Returned(target)
           /\ parts # <<>>
           /\ parts[Len(parts)] = left \o sep \o right

\* C6 as stated: with the combinator ' ', combine puts exactly two spaces
\* between the left and the right serialization.
C6_SpaceGivesTwoSpaces == [][SpaceCombineSeparates("  ")]_vars

\* C6 as amended: with the combinator ' ', combine puts exactly three spaces
\* between the left and the right serialization.
C6_SpaceGivesThreeSpaces == [][SpaceCombineSeparates("   ")]_vars

\* An element and a class, combined with ' ' by the method of a third builder.
C6_Witness ==
    /\ call = CalledCombine(3, 1, " ", 2)
    /\ builders[3].stack = <<":a", "a   .a">>

\* C7: stringify() returns the parts joined and leaves no part; called again
\* with no accepted fragment and no combine into the builder in between, it
\* returns the empty string.
C7_StringifyDrains ==
    /\ [][IsStringify
           => /\ outcome' = ReturnedString(Join(builders[call'.this].stack))
              /\ builders'[call'.this].stack = <<>>]_vars
    /\ [][(IsStringify /\ call'.this \in drained)
           => outcome' = ReturnedString("")]_vars

\* stringify() returned '' for a builder it had run on before; a refused
\* fragment came in between.
C7_Witness ==
    /\ call = Called("stringify", 1)
    /\ outcome = ReturnedString("")
    /\ drained = {1}
    /\ builders[1].singleStack = <<"class", "id">>

\* C8 as stated: stringify() clears the whole state: no part, no kind in
\* singleStack, and an order that refuses no fragment.
C8_StringifyResetsAll ==
    [][IsStringify
        => /\ builders'[call'.this].stack = <<>>
           /\ builders'[call'.this].singleStack = <<>>
           /\ \A kind \in Kinds :
                 ~LessThan(Rank(kind), builders'[call'.this].order)]_vars

\* C8 as amended: stringify() clears the parts only: singleStack and order
\* stay as they were, and a fragment after it is still checked against them.
C8_StringifyKeepsChecks ==
    /\ [][IsStringify
           => /\ builders'[call'.this].stack = <<>>
              /\ builders'[call'.this].singleStack = builders[call'.this].singleStack
              /\ builders'[call'.this].order = builders[call'.this].order]_vars
    /\ [][(/\ IsAppend
            /\ call'.this \in drained
            /\ \/ call'.op \in Singles \cap accepted[call'.this]
               \/ \E kind \in accepted[call'.this] : Rank(call'.op) < Rank(kind))
           => outcome'.type = "throw"]_vars

\* After stringify(), a class was refused for the order of the attr before it.
C8_Witness ==
    /\ call = Called("class", 1)
    /\ outcome = Thrown(OrderMessage)
    /\ drained = {1}
    /\ accepted[1] = {"id", "attr"}

\* C9: a fragment function of the facade returns a new builder and changes no
\* other; a fragment method or stringify of one builder, returning or
\* throwing, changes no other builder.
C9_BuildersIndependent ==
    /\ [][(call'.this = 0 /\ call'.op \in Kinds)
           => /\ outcome'.type = "builder"
              /\ outcome'.ref \notin Refs
              /\ DOMAIN builders' = Refs \cup {outcome'.ref}
              /\ \A m \in Refs : builders'[m] = builders[m]]_vars
    /\ [][(IsAppend \/ IsStringify)
           => /\ DOMAIN builders' = Refs
              /\ \A m \in Refs \ {call'.this} : builders'[m] = builders[m]]_vars

\* Two builders: the first took an id and refused an element since the
\* second was made, the second is as made.
C9_Witness ==
    /\ Len(builders) = 2
    /\ call = Called("element", 1)
    /\ outcome = Thrown(DuplicateMessage)
    /\ builders[1].stack = <<"a", "#a">>
    /\ builders[2] = Made("pseudoClass", "a")

\* C10: stringify and both combine never throw, in any state of the builders
\* they are given.
C10_StringifyCombineTotal ==
    [][call'.op \in {"stringify", "combine"} => outcome'.type # "throw"]_vars

\* A builder refused a fragment and was drained by stringify(); combine of the
\* facade then took it as both selectors.
C10_Witness ==
    /\ call = CalledCombine(0, 1, " ", 1)
    /\ builders[1].singleStack = <<"id", "element">>
    /\ drained = {1}
    /\ builders[2].stack = <<"   ">>
    /\ outcome = Returned(2)

\* C11: the order of a builder a fragment function of the facade made never
\* falls: a fragment method that returns sets it to the rank of its kind, which
\* is at least the order before, and no call of any kind, on this builder or
\* on another, returning or throwing, lowers it.
C11_OrderNeverFalls ==
    /\ [][\A n \in Refs :
             builders[n].order # Undefined
             => builders'[n].order >= builders[n].order]_vars
    /\ [][(/\ IsAppend
            /\ builders[call'.this].order # Undefined
            /\ outcome' = Returned(call'.this))
           => /\ builders'[call'.this].order = Rank(call'.op)
              /\ Rank(call'.op) >= builders[call'.this].order]_vars

\* An id took a class, then refused an element for its order: the order is
\* still that of the class.
C11_Witness ==
    /\ call = Called("element", 1)
    /\ outcome = Thrown(OrderMessage)
    /\ builders[1].stack = <<"#a", ".a">>
    /\ builders[1].order = 2

\* C12: element, id or pseudoElement on a builder whose singleStack already
\* holds the kind and whose order is above the rank of the kind throws the
\* duplicate error, not the order error; pseudoElement, the one method that
\* checks the order first, is never refused for its order.
C12_DuplicateBeforeOrder ==
    /\ [][(/\ IsAppend
            /\ call'.op \in Singles
            /\ Contains(builders[call'.this].singleStack, call'.op)
            /\ LessThan(Rank(call'.op), builders[call'.this].order))
           => outcome' = Thrown(DuplicateMessage)]_vars
    /\ [][(IsAppend /\ call'.op = "pseudoElement")
           => outcome'.msg # OrderMessage]_vars

\* element, id, element: the second element is a duplicate and out of order.
C12_Witness ==
    /\ call = Called("element", 1)
    /\ outcome = Thrown(DuplicateMessage)
    /\ builders[1].stack = <<"a", "#b">>
    /\ builders[1].singleStack = <<"element", "id">>
    /\ builders[1].order = 1

\* C13: a fragment method that throws, for a duplicate or for the order, leaves
\* the stack, the singleStack and the order of its builder as they were.
C13_RejectedAppendIsPure ==
    [][(IsAppend /\ outcome'.type = "throw")
        => builders'[call'.this] = builders[call'.this]]_vars

\* An id refused an element for its order, and holds 'element' in singleStack.
C13_Witness ==
    /\ call = Called("element", 1)
    /\ outcome = Thrown(OrderMessage)
    /\ builders[1].stack = <<"#a">>
    /\ builders[1].singleStack = <<"id", "element">>
    /\ builders[1].order = 1

\* The step is a call of combine, of the facade or of a builder.
IsCombine == call'.op = "combine"

\* The builder a call of combine pushed its string on.
CombineTarget == IF call'.this = 0 THEN outcome'.ref ELSE call'.this

\* The string combine built when its second stringify() found what the first
\* one left: nothing, if both selectors are the same builder.
JoinedConsumed ==
    Serialization(call'.selector1)
    \o (IF call'.combinator = "" THEN "" ELSE " " \o call'.combinator \o " ")
    \o (IF call'.selector2 = call'.selector1 THEN ""
        ELSE Serialization(call'.selector2))

\* The last part of builder n after the step.
LastPart(n) == builders'[n].stack[Len(builders'[n].stack)]

\* C14 as stated: after combine, of the facade or of a builder, both selectors
\* have no part and serialize to the empty string, and the string built is
\* left, separator, right, with an empty right when both selectors are the
\* same builder.
C14_CombineDrainsBoth ==
    [][IsCombine
        => /\ \A s \in {call'.selector1, call'.selector2} :
                 /\ builders'[s].stack = <<>>
                 /\ StringifyBody(builders'[s]).str = ""
           /\ builders'[CombineTarget].stack # <<>>
           /\ LastPart(CombineTarget) = JoinedConsumed]_vars

\* C14 as amended: after combine every selector other than the builder whose
\* method was called has no part and serializes to the empty string; a
\* selector that is that builder holds one part, the string built.  The string
\* built is left, separator, right, with an empty right when both selectors
\* are the same builder.
C14_CombineDrainsOthers ==
    [][IsCombine
        => /\ \A s \in {call'.selector1, call'.selector2} \ {call'.this} :
                 /\ builders'[s].stack = <<>>
                 /\ StringifyBody(builders'[s]).str = ""
           /\ call'.this \in {call'.selector1, call'.selector2}
                 => builders'[call'.this].stack = <<JoinedConsumed>>
           /\ builders'[CombineTarget].stack # <<>>
           /\ LastPart(CombineTarget) = JoinedConsumed]_vars

\* combine of the facade with one builder, an id that took a class, as both
\* selectors: the right side is empty.
C14_Witness ==
    /\ call = CalledCombine(0, 1, " ", 1)
    /\ builders[1].stack = <<>>
    /\ builders[1].singleStack = <<"id">>
    /\ builders[2].stack = <<"#a.a   ">>

\* C15: the builder combine of the facade returns is new and holds one part,
\* the string built, an empty singleStack and no order; while it has no order,
\* that is until a first fragment method ran on it, a fragment method of any
\* of the six kinds returns.
C15_CombinedIsUntracked ==
    /\ [][(IsCombine /\ call'.this = 0)
           => /\ outcome'.type = "builder"
              /\ outcome'.ref \notin Refs
              /\ builders'[outcome'.ref] =
                     [stack |-> <<JoinedConsumed>>,
                      singleStack |-> <<>>,
                      order |-> Undefined]]_vars
    /\ [][(IsAppend /\ builders[call'.this].order = Undefined)
           => /\ builders[call'.this].singleStack = <<>>
              /\ outcome' = Returned(call'.this)]_vars

\* An element and an id combined with ' ' by the facade; the builder returned
\* then took an element.
C15_Witness ==
    /\ call = Called("element", 3)
    /\ outcome = Returned(3)
    /\ builders[3].stack = <<"a   #a", "a">>
    /\ builders[3].singleStack = <<"element">>
    /\ builders[3].order = 0

\* What the builder combine(selector1, combinator, selector2) of the facade
\* would return in this state serializes to.
FactoryCombined(selector1, combinator, selector2) ==
    StringifyBody(CurrentBuilder(
        CombineBody(builders, selector1, combinator, selector2).str,
        Undefined, NoId)).str

\* C16: combine called on a builder that is neither selector returns that
\* builder, whatever its singleStack and order, and changes it only by one more
\* part at the end of its stack: the string combine of the facade would have
\* given for the same selectors and combinator.
C16_InstanceCombineAppends ==
    [][(/\ IsCombine
        /\ call'.this > 0
        /\ call'.this \notin {call'.selector1, call'.selector2})
       => /\ outcome' = Returned(call'.this)
          /\ DOMAIN builders' = Refs
          /\ FactoryCombined(call'.selector1, call'.combinator, call'.selector2)
                 = JoinedConsumed
          /\ builders'[call'.this] =
                 [builders[call'.this] EXCEPT !.stack = Append(@, JoinedConsumed)]]_vars

\* A pseudoElement builder combined an element and an id: the string is its
\* second part, after the part of a higher rank than both.
C16_Witness ==
    /\ call = CalledCombine(3, 1, " ", 2)
    /\ outcome = Returned(3)
    /\ builders[3].stack = <<"::a", "a   #a">>
    /\ builders[3].singleStack = <<"pseudoElement">>
    /\ builders[3].order = 5

\* C17 as stated: the singleStack of every builder holds only 'element', 'id'
\* and 'pseudoElement'; the builders class, attr and pseudoClass of the facade
\* make start with an empty one.
C17_OnlySinglesSeen ==
    \A n \in Refs :
        \A i \in 1..Len(builders[n].singleStack) :
            builders[n].singleStack[i] \in Singles

\* C17 as amended: the builder a fragment function of the facade makes starts
\* with the kind of that function as the one entry of its singleStack, also for
\* class, attr and pseudoClass; every entry after the first is 'element', 'id'
\* or 'pseudoElement', and no entry occurs twice.
C17_SeedTagThenSingles ==
    /\ [](\A n \in Refs :
            LET seen == builders[n].singleStack
            IN  /\ \A i \in 1..Len(seen) :
                      \/ seen[i] \in Singles
                      \/ i = 1 /\ seen[i] \in Repeatables
                /\ \A i \in 1..Len(seen), j \in 1..Len(seen) :
                      seen[i] = seen[j] => i = j)
    /\ [][(call'.this = 0 /\ call'.op \in Kinds)
           => builders'[outcome'.ref].singleStack = <<call'.op>>]_vars

\* The builder attr of the facade made took a pseudoElement: its singleStack
\* holds 'attr' before it.
C17_Witness ==
    /\ call = Called("pseudoElement", 1)
    /\ outcome = Returned(1)
    /\ builders[1].stack = <<"[a]", "::a">>
    /\ builders[1].singleStack = <<"attr", "pseudoElement">>

====
